---- MODULE Spec2Model ----
(***************************************************************************)
(* emberon.py: a file is compressed, framed by a 256-byte header and laid  *)
(* out on a width x height grid of 4-byte RGBA records; decode reads the   *)
(* grid back, checks the header and the digest, decompresses and writes    *)
(* the file; inspect prints the header.                                    *)
(*                                                                         *)
(* Bytes are integers 0..255, byte strings are sequences of them, and      *)
(* Python's str values are sequences of code points.  Offsets are          *)
(* 0-based as in the source; Slice converts to TLA+'s 1-based sequences.   *)
(***************************************************************************)
EXTENDS Integers, Sequences, FiniteSets, TLC

\* ------------------------------------------------------------------ bounds

\* Longest input file, in bytes.
MaxLen == 2

\* Largest record count given to a stand-alone choose_dimensions call.
MaxN == 150

\* Longest base-name and extension (in characters) given to a stand-alone
\* calc_header call.
MaxNameChars == 177

MaxExtChars == 22

\* --------------------------------------------------------------- constants

MAGIC == <<69, 77, 66, 69, 82, 79, 78, 51>>

HEADER_PREFIX_SIZE == 30

HEADER_PAD_TO == 256

COMP_NONE == 0

COMP_ZLIB == 1

COMP_ZSTD == 2

COMP_LZMA == 3

HEADER_RESERVED_BYTE == 0

BYTES_PER_PIXEL == 4

NAME_LIMIT == 175

EXT_LIMIT == 20

DIGEST_SIZE == 32

DOT == 46

SLASH == 47

COLON == 58

\* ----------------------------------------------------------- byte strings

Min(a, b) == IF a < b THEN a ELSE b

\* Python's s[a:b] for 0 <= a: the bytes at offsets a .. b-1, clamped to s.
Slice(s, a, b) == SubSeq(s, a + 1, Min(b, Len(s)))

\* b'\x00' * n
Zeros(n) == [i \in 1..n |-> 0]

\* struct.pack of one big-endian unsigned field of n bytes.
RECURSIVE PackBE(_, _)
PackBE(v, n) == IF n = 0 THEN <<>> ELSE PackBE(v \div 256, n - 1) \o <<v % 256>>

\* struct.unpack of one big-endian unsigned field.
RECURSIVE UnpackBE(_)
UnpackBE(bs) == IF bs = <<>> THEN 0 ELSE UnpackBE(SubSeq(bs, 1, Len(bs) - 1)) * 256 + bs[Len(bs)]

\* f"{n}".encode(): the decimal digits of n >= 0, in ASCII.
RECURSIVE DecimalAscii(_)
DecimalAscii(n) == IF n < 10 THEN <<48 + n>> ELSE DecimalAscii(n \div 10) \o <<48 + (n % 10)>>

\* str.encode('utf-8') of code points below 0x800 (one or two bytes each);
\* the string is encoded half by half.
RECURSIVE Utf8Encode(_)
Utf8Encode(s) ==
    IF s = <<>> THEN <<>>
    ELSE IF Len(s) = 1 THEN (IF s[1] < 128 THEN <<s[1]>> ELSE <<192 + (s[1] \div 64), 128 + (s[1] % 64)>>)
    ELSE LET half == Len(s) \div 2
         IN Utf8Encode(SubSeq(s, 1, half)) \o Utf8Encode(SubSeq(s, half + 1, Len(s)))

\* Whether bytes.decode('utf-8') accepts bs.  Sequences of three and four
\* bytes (lead bytes from 0xE0) encode code points the model never stores.
RECURSIVE Utf8Valid(_)
Utf8Valid(bs) ==
    IF bs = <<>> THEN TRUE
    ELSE IF bs[1] < 128 THEN Utf8Valid(Tail(bs))
    ELSE IF bs[1] >= 194 /\ bs[1] < 224 /\ Len(bs) >= 2 /\ bs[2] >= 128 /\ bs[2] < 192
    THEN Utf8Valid(SubSeq(bs, 3, Len(bs)))
    ELSE FALSE

\* bytes.decode('utf-8') of a valid bs.
RECURSIVE Utf8Decode(_)
Utf8Decode(bs) ==
    IF bs = <<>> THEN <<>>
    ELSE IF bs[1] < 128 THEN <<bs[1]>> \o Utf8Decode(Tail(bs))
    ELSE <<(bs[1] - 192) * 64 + (bs[2] - 128)>> \o Utf8Decode(SubSeq(bs, 3, Len(bs)))

\* -------------------------------------------------------------- os.path

\* Offset of the last c in s, or -1 (str.rfind).
RFind(s, c) ==
    LET hits == {i \in 1..Len(s) : s[i] = c}
    IN IF hits = {} THEN -1 ELSE (CHOOSE i \in hits : \A j \in hits : j <= i) - 1

\* os.path.basename: what follows the last '/'.
Basename(p) == Slice(p, RFind(p, SLASH) + 1, Len(p))

\* os.path.splitext: the extension starts at the last '.' of the last path
\* component, unless only dots precede it there (a leading dot is no
\* extension).  Returns <<root, ext>>, ext keeping its dot.
Splitext(p) ==
    LET sepIndex == RFind(p, SLASH)
        dotIndex == RFind(p, DOT)
    IN IF dotIndex > sepIndex /\ \E k \in (sepIndex + 1)..(dotIndex - 1) : p[k + 1] # DOT
       THEN <<Slice(p, 0, dotIndex), Slice(p, dotIndex, Len(p))>>
       ELSE <<p, <<>> >>

\* str.lstrip('.')
RECURSIVE LStripDot(_)
LStripDot(s) == IF s # <<>> /\ s[1] = DOT THEN LStripDot(Tail(s)) ELSE s

\* --------------------------------------------------- compression registry

\* The keys of COMPRESSORS: zstd is registered only when the import worked.
COMPRESSORS(zstd) == {COMP_NONE, COMP_ZLIB, COMP_LZMA} \cup (IF zstd THEN {COMP_ZSTD} ELSE {})

\* The libraries' codecs are stood in for by a framed copy of the data: the
\* stream's first byte (zlib 0x78, zstd 0x28, xz 0xFD), the data, and a one-
\* byte checksum of it.  What the pipeline relies on is kept: decompress
\* inverts compress, rejects a stream that is not well formed, and the
\* compressed length differs from the original one.
FrameMagic(m) == CASE m = COMP_ZLIB -> 120 [] m = COMP_ZSTD -> 40 [] OTHER -> 253

RECURSIVE Checksum(_)
Checksum(data) == IF data = <<>> THEN 1 ELSE (Checksum(Tail(data)) + data[1]) % 256

\* The levels each library accepts (zlib -1..9, lzma presets 0..9, zstd up
\* to 22); "none" ignores the level.
LevelOk(m, lvl) ==
    CASE m = COMP_NONE -> TRUE
      [] m = COMP_ZLIB -> lvl >= -1 /\ lvl <= 9
      [] m = COMP_LZMA -> lvl >= 0 /\ lvl <= 9
      [] OTHER -> lvl <= 22

\* COMPRESSORS[m]["compress"](data, level), for a level the library accepts.
Compress(m, data, lvl) == IF m = COMP_NONE THEN data ELSE <<FrameMagic(m)>> \o data \o <<Checksum(data)>>

\* Whether COMPRESSORS[m]["decompress"](comp) returns (it raises otherwise).
DecompressOk(m, comp) ==
    IF m = COMP_NONE THEN TRUE
    ELSE Len(comp) >= 2 /\ comp[1] = FrameMagic(m) /\ comp[Len(comp)] = Checksum(SubSeq(comp, 2, Len(comp) - 1))

\* COMPRESSORS[m]["decompress"](comp), when it returns.
Decompress(m, comp) == IF m = COMP_NONE THEN comp ELSE SubSeq(comp, 2, Len(comp) - 1)

\* ----------------------------------------------------------------- header

\* hashlib.sha256(msg).digest(), stood in for by a 32-byte value with no
\* collisions among the messages of the model: the message's length and its
\* first 31 bytes, zero-padded (every message of the model is shorter).
Sha256(msg) == LET n == Min(Len(msg), DIGEST_SIZE - 1) IN <<Len(msg) % 256>> \o SubSeq(msg, 1, n) \o Zeros(DIGEST_SIZE - 1 - n)

\* The digest without sha.update(comp_bytes).
FrameDigestSizeOnly(orig_size, comp_bytes) == Sha256(DecimalAscii(orig_size) \o <<COLON>>)

\* The digest of a frame: sha256(f"{orig_size}:" + comp_bytes).
FrameDigest(orig_size, comp_bytes) == Sha256(DecimalAscii(orig_size) \o <<COLON>> \o comp_bytes)

\* The base-name without os.path.basename.
HeaderNameWithDirs(filename) == Utf8Encode(Splitext(filename)[1])

\* The base-name stored in the header.
HeaderName(filename) == Utf8Encode(Splitext(Basename(filename))[1])

\* The extension stored in the header.
HeaderExt(filename) == Utf8Encode(LStripDot(Splitext(filename)[2]))

\* struct.pack('>8sBBQQHH', ...)
PackPrefix(comp_method, orig_size, comp_size, name_len, ext_len) ==
    MAGIC \o <<comp_method, HEADER_RESERVED_BYTE>> \o PackBE(orig_size, 8) \o PackBE(comp_size, 8)
          \o PackBE(name_len, 2) \o PackBE(ext_len, 2)

\* calc_header from the encoded name and extension on: [err, header].
HeaderFromParts(orig_size, comp_bytes, name, ext, comp_method) ==
    IF Len(name) > NAME_LIMIT \/ Len(ext) > EXT_LIMIT
    THEN [err |-> "NameTooLong", header |-> <<>>]
    ELSE LET prefix == PackPrefix(comp_method, orig_size, Len(comp_bytes), Len(name), Len(ext))
             header == prefix \o name \o ext \o FrameDigest(orig_size, comp_bytes)
         IN IF Len(header) > HEADER_PAD_TO
            THEN [err |-> "HeaderOverflow", header |-> <<>>]
            ELSE [err |-> "OK", header |-> header \o Zeros(HEADER_PAD_TO - Len(header))]

calc_header(orig_size, comp_bytes, filename, comp_method) == HeaderFromParts(orig_size, comp_bytes, HeaderName(filename), HeaderExt(filename), comp_method)

\* The length checked against the packed prefix only.
ShorterThanPrefix(raw) == Len(raw) < HEADER_PREFIX_SIZE

\* The first check of parse_header.
HeaderTooShort(raw) == Len(raw) < HEADER_PAD_TO

\* What stands for the header when parse_header raised.
NoHeader == [err |-> "TruncatedImage", magic |-> <<>>, comp_method |-> 0, reserved |-> 0, orig_size |-> 0, comp_size |-> 0, name |-> <<>>, ext |-> <<>>, digest |-> <<>>]

\* parse_header: err is "TruncatedImage", "InvalidEncoding" or "OK".  The
\* slices are Python's, which stop at the end of raw.
parse_header(raw) ==
    IF HeaderTooShort(raw) THEN NoHeader
    ELSE LET name_len == UnpackBE(Slice(raw, 26, 28))
             ext_len == UnpackBE(Slice(raw, 28, 30))
             pos == HEADER_PREFIX_SIZE
             nameBytes == Slice(raw, pos, pos + name_len)
             extBytes == Slice(raw, pos + name_len, pos + name_len + ext_len)
         IN IF ~Utf8Valid(nameBytes) \/ ~Utf8Valid(extBytes)
            THEN [NoHeader EXCEPT !.err = "InvalidEncoding"]
            ELSE [err |-> "OK",
                  magic |-> Slice(raw, 0, 8),
                  comp_method |-> raw[9],
                  reserved |-> raw[10],
                  orig_size |-> UnpackBE(Slice(raw, 10, 18)),
                  comp_size |-> UnpackBE(Slice(raw, 18, 26)),
                  name |-> Utf8Decode(nameBytes),
                  ext |-> Utf8Decode(extBytes),
                  digest |-> Slice(raw, pos + name_len + ext_len, pos + name_len + ext_len + DIGEST_SIZE)]

\* ------------------------------------------------------------------- core

\* ceil(sqrt(n)) and ceil(n / w).  The source computes both in double
\* precision, which is exact for every n below 2^52.
FloorSqrt(n) == CHOOSE w \in 0..n : w * w <= n /\ (w + 1) * (w + 1) > n

CeilSqrt(n) == CHOOSE w \in 0..n : w * w >= n /\ \A v \in 0..(w - 1) : v * v < n

CeilDiv(n, w) == (n + w - 1) \div w

choose_dimensions(num_pixels) == LET w == CeilSqrt(num_pixels) IN <<w, CeilDiv(num_pixels, w)>>

\* The image handed from encode to decode: Image.frombytes('RGBA', (w, h),
\* payload) saved as PNG and opened again, which keeps the bytes as they are.
NoImg == [mode |-> "none", width |-> 0, height |-> 0, raw |-> <<>>]

\* encode_file_to_png on the bytes of in_path: [err, img, num_pixels].
\* COMPRESSORS[comp_method] raises KeyError for an unregistered method, the
\* library raises on a level it does not accept, calc_header raises on a
\* long name.
encode_file_to_png(raw_data, in_path, comp_method, compress_level, zstd) ==
    IF comp_method \notin COMPRESSORS(zstd)
    THEN [err |-> "KeyError", img |-> NoImg, num_pixels |-> 0]
    ELSE IF ~LevelOk(comp_method, compress_level)
    THEN [err |-> "CompressError", img |-> NoImg, num_pixels |-> 0]
    ELSE LET comp_bytes == Compress(comp_method, raw_data, compress_level)
             h == calc_header(Len(raw_data), comp_bytes, in_path, comp_method)
             payload == h.header \o comp_bytes
             pad_len == (BYTES_PER_PIXEL - (Len(payload) % BYTES_PER_PIXEL)) % BYTES_PER_PIXEL
             num_pixels == (Len(payload) + pad_len) \div BYTES_PER_PIXEL
             dim == choose_dimensions(num_pixels)
             extra_pixels == dim[1] * dim[2] - num_pixels
         IN IF h.err # "OK"
            THEN [err |-> h.err, img |-> NoImg, num_pixels |-> 0]
            ELSE [err |-> "OK",
                  img |-> [mode |-> "RGBA", width |-> dim[1], height |-> dim[2],
                           raw |-> payload \o Zeros(pad_len) \o Zeros(extra_pixels * BYTES_PER_PIXEL)],
                  num_pixels |-> num_pixels]

\* What decode_png_to_file leaves behind: the error it raised ("OK" when it
\* returned), the path it chose, whether it opened that path for writing
\* (which creates or empties the file) and the bytes it wrote.
DecodeOutcome(err, out_path, opened, data) == [err |-> err, out_path |-> out_path, opened |-> opened, data |-> data]

\* Only the format's name, "EMBERON", compared, not its version digit.
MagicNameOk(magic) == Slice(magic, 0, 7) = Slice(MAGIC, 0, 7)

\* header_data["magic"] != MAGIC, negated.
MagicOk(magic) == magic = MAGIC

\* The slice taken from the end of the packed prefix, not of the header.
CompRegionFromPrefix(raw, comp_size) == Slice(raw, HEADER_PREFIX_SIZE, HEADER_PREFIX_SIZE + comp_size)

\* raw[comp_start:comp_end]
CompRegion(raw, comp_size) == Slice(raw, HEADER_PAD_TO, HEADER_PAD_TO + comp_size)

\* The registry check left out.
MethodUnchecked(m, zstd) == TRUE

\* header_data["comp_method"] not in COMPRESSORS, negated.
MethodKnown(m, zstd) == m \in COMPRESSORS(zstd)

\* The steps of decode_png_to_file from the parsed header on.  The output
\* file is opened before the decompressor runs.
DecodeFrame(raw, h, out_arg, zstd) ==
    LET comp_start == HEADER_PAD_TO
        comp_end == comp_start + h.comp_size
        comp_bytes == CompRegion(raw, h.comp_size)
        out_path == IF out_arg # <<>> THEN out_arg
                    ELSE IF h.ext # <<>> THEN h.name \o <<DOT>> \o h.ext ELSE h.name
    IN IF ~MagicOk(h.magic) THEN DecodeOutcome("BadMagic", <<>>, FALSE, <<>>)
       ELSE IF comp_end > Len(raw) THEN DecodeOutcome("Truncated", <<>>, FALSE, <<>>)
       ELSE IF FrameDigest(h.orig_size, comp_bytes) # h.digest THEN DecodeOutcome("IntegrityMismatch", <<>>, FALSE, <<>>)
       ELSE IF ~MethodKnown(h.comp_method, zstd) THEN DecodeOutcome("UnsupportedMethod", out_path, FALSE, <<>>)
       ELSE IF out_path = <<>> THEN DecodeOutcome("OpenFailed", out_path, FALSE, <<>>)
       ELSE IF ~DecompressOk(h.comp_method, comp_bytes) THEN DecodeOutcome("DecompressError", out_path, TRUE, <<>>)
       ELSE DecodeOutcome("OK", out_path, TRUE, Decompress(h.comp_method, comp_bytes))

\* decode_png_to_file(in_path, out_path); out_arg is <<>> for no -o.
decode_png_to_file(image, out_arg, zstd) ==
    IF image.mode # "RGBA" THEN DecodeOutcome("InvalidMode", <<>>, FALSE, <<>>)
    ELSE LET h == parse_header(image.raw)
         IN IF h.err # "OK" THEN DecodeOutcome(h.err, <<>>, FALSE, <<>>)
            ELSE DecodeFrame(image.raw, h, out_arg, zstd)

\* The "i" command of main: the mode check, parse_header, print_header_info.
\* [err, fields]: fields is what was printed.
inspect(image) ==
    IF image.mode # "RGBA" THEN [err |-> "InvalidMode", fields |-> NoHeader]
    ELSE LET h == parse_header(image.raw)
         IN IF h.err # "OK" THEN [err |-> h.err, fields |-> NoHeader]
            ELSE [err |-> "OK", fields |-> h]

\* ------------------------------------------------------------------ inputs

ByteVals == {0, 65}

\* The input files: every byte string over ByteVals of at most MaxLen bytes.
Contents == UNION {[1..n -> ByteVals] : n \in 0..MaxLen}

\* Paths of input files: "note.txt", ".rc", "f.", "a.b.c", "d.x/f" and
\* "é.t".  A path that open() accepts has a non-empty last component.
Filenames == {<<110, 111, 116, 101, 46, 116, 120, 116>>, <<46, 114, 99>>, <<102, 46>>, <<97, 46, 98, 46, 99>>, <<100, 46, 120, 47, 102>>, <<233, 46, 116>>}

\* --no-compress, --zlib, --zstd, --lzma
Methods == {COMP_NONE, COMP_ZLIB, COMP_ZSTD, COMP_LZMA}

\* -l: the default and one no library but zstd accepts.
Levels == {6, 10}

\* -o of the "d" command: absent, or "o".
OutArgs == {<<>>, <<111>>}

\* --------------------------------------------------------------- the state

VARIABLES pc, zstd, inData, inName, inMethod, encErr, encN, img, tamper, decArg, dec, outFile, insp, hdrCall, dimCall

vars == <<pc, zstd, inData, inName, inMethod, encErr, encN, img, tamper, decArg, dec, outFile, insp, hdrCall, dimCall>>

NoFile == [exists |-> FALSE, data |-> <<>>]

NoTamper == [kind |-> "none", at |-> 0]

Init ==
    /\ pc = "start"
    /\ zstd \in BOOLEAN
    /\ inData = <<>>
    /\ inName = <<>>
    /\ inMethod = 0
    /\ encErr = "none"
    /\ encN = 0
    /\ img = NoImg
    /\ tamper = NoTamper
    /\ decArg = <<>>
    /\ dec = DecodeOutcome("none", <<>>, FALSE, <<>>)
    /\ outFile = NoFile
    /\ insp = [err |-> "none", fields |-> NoHeader]
    /\ hdrCall = [name_len |-> 0, ext_len |-> 0, err |-> "none", len |-> 0]
    /\ dimCall = [n |-> 0, w |-> 0, h |-> 0]

\* The "e" command.
Encode ==
    /\ pc = "start"
    /\ \E b \in Contents, f \in Filenames, m \in Methods, l \in Levels :
         LET r == encode_file_to_png(b, f, m, l, zstd)
         IN /\ inData' = b
            /\ inName' = f
            /\ inMethod' = m
            /\ encErr' = r.err
            /\ encN' = r.num_pixels
            /\ img' = r.img
            /\ pc' = IF r.err = "OK" THEN "encoded" ELSE "encode_failed"
    /\ UNCHANGED <<zstd, tamper, decArg, dec, outFile, insp, hdrCall, dimCall>>

\* The "d" command on the image as it now is.
Decode ==
    /\ pc = "encoded"
    /\ \E o \in OutArgs :
         LET r == decode_png_to_file(img, o, zstd)
         IN /\ decArg' = o
            /\ dec' = r
            /\ outFile' = IF r.opened THEN [exists |-> TRUE, data |-> r.data] ELSE outFile
    /\ pc' = "decoded"
    /\ UNCHANGED <<zstd, inData, inName, inMethod, encErr, encN, img, tamper, insp, hdrCall, dimCall>>

\* The "i" command on the image as it now is.
Inspect ==
    /\ pc = "encoded"
    /\ insp' = inspect(img)
    /\ pc' = "inspected"
    /\ UNCHANGED <<zstd, inData, inName, inMethod, encErr, encN, img, tamper, decArg, dec, outFile, hdrCall, dimCall>>

\* ------------------------------------------ what happens to a stored image

Untouched == pc = "encoded" /\ tamper = NoTamper

FlipBit(v, k) == IF (v \div (2 ^ k)) % 2 = 1 THEN v - 2 ^ k ELSE v + 2 ^ k

Keep == UNCHANGED <<pc, zstd, inData, inName, inMethod, encErr, encN, decArg, dec, outFile, insp, hdrCall, dimCall>>

\* One bit of the compressed payload, offsets 256 .. 256+comp_size-1, flips.
FlipPayloadBit ==
    /\ Untouched
    /\ \E at \in HEADER_PAD_TO..(HEADER_PAD_TO + UnpackBE(Slice(img.raw, 18, 26)) - 1), k \in 0..7 :
         /\ img' = [img EXCEPT !.raw[at + 1] = FlipBit(@, k)]
         /\ tamper' = [kind |-> "flip", at |-> at]
    /\ Keep

\* One bit of the magic, offsets 0 .. 7, flips.
CorruptMagic ==
    /\ Untouched
    /\ \E at \in 0..(Len(MAGIC) - 1), k \in 0..7 :
         /\ img' = [img EXCEPT !.raw[at + 1] = FlipBit(@, k)]
         /\ tamper' = [kind |-> "magic", at |-> at]
    /\ Keep

\* The grid's byte buffer is cut to a shorter length.
Truncate ==
    /\ Untouched
    /\ \E n \in 0..(Len(img.raw) - 1) :
         /\ img' = [img EXCEPT !.raw = SubSeq(@, 1, n)]
         /\ tamper' = [kind |-> "trunc", at |-> n]
    /\ Keep

\* The header names another compression method: one of the known ones, or a
\* code no registry holds.
SetMethodByte ==
    /\ Untouched
    /\ \E m \in Methods \cup {4, 255} :
         /\ m # img.raw[9]
         /\ img' = [img EXCEPT !.raw[9] = m]
         /\ tamper' = [kind |-> "method", at |-> 8]
    /\ Keep

\* The PNG is not an RGBA one.
ChangeMode ==
    /\ Untouched
    /\ img' = [img EXCEPT !.mode = "RGB"]
    /\ tamper' = [kind |-> "mode", at |-> 0]
    /\ Keep

\* ------------------------------------------------- calls of the functions

\* calc_header on a file name of nl times "a" and, after a dot, el times "b"
\* (no dot when el = 0), or the same with the two-byte "é" for "a".
CalcHeaderCall ==
    /\ pc = "start"
    /\ \E nl \in 1..MaxNameChars, el \in 0..MaxExtChars, c \in {97, 233} :
         LET filename == [i \in 1..nl |-> c] \o (IF el = 0 THEN <<>> ELSE <<DOT>> \o [i \in 1..el |-> 98])
             r == calc_header(0, <<>>, filename, COMP_NONE)
         IN hdrCall' = [name_len |-> Len(HeaderName(filename)), ext_len |-> Len(HeaderExt(filename)), err |-> r.err, len |-> Len(r.header)]
    /\ pc' = "header"
    /\ UNCHANGED <<zstd, inData, inName, inMethod, encErr, encN, img, tamper, decArg, dec, outFile, insp, dimCall>>

\* choose_dimensions on its own.
ChooseDimensionsCall ==
    /\ pc = "start"
    /\ \E n \in 1..MaxN :
         LET d == choose_dimensions(n)
         IN dimCall' = [n |-> n, w |-> d[1], h |-> d[2]]
    /\ pc' = "dims"
    /\ UNCHANGED <<zstd, inData, inName, inMethod, encErr, encN, img, tamper, decArg, dec, outFile, insp, hdrCall>>

\* ---------------------------------------------------------- specifications

Next == Encode \/ Decode \/ Inspect \/ FlipPayloadBit \/ CorruptMagic \/ Truncate \/ SetMethodByte \/ ChangeMode

Spec == Init /\ [][Next]_vars

NextHeader == CalcHeaderCall

SpecHeader == Init /\ [][NextHeader]_vars

NextDims == Encode \/ ChooseDimensionsCall

SpecDims == Init /\ [][NextDims]_vars

\* ------------------------------------------------------------- properties

Decoded == pc = "decoded"

Intact == tamper = NoTamper

NothingWritten == ~dec.opened /\ ~outFile.exists /\ dec.data = <<>>

\* comp_size as the header of the stored image records it.
StoredCompSize == UnpackBE(Slice(img.raw, 18, 26))

\* C1: decoding an image that encode produced, unchanged, succeeds and
\* writes exactly the bytes of the input file, whatever the method, the
\* file name and the zero padding of the grid.
RoundTrip == (Decoded /\ Intact) => (dec.err = "OK" /\ dec.opened /\ dec.data = inData /\ outFile = [exists |-> TRUE, data |-> inData])

\* C1's case: a non-empty file, compressed by a library, in a grid with
\* padding after the payload, decoded.
RoundTripWitness == Decoded /\ Intact /\ inData # <<>> /\ inMethod = COMP_LZMA /\ Len(img.raw) > HEADER_PAD_TO + StoredCompSize /\ outFile.data = inData

\* C2: after one bit of the compressed payload has flipped, decode fails
\* with IntegrityMismatch and writes nothing, whatever the method.
TamperDetected == (Decoded /\ tamper.kind = "flip") => (dec.err = "IntegrityMismatch" /\ NothingWritten)

\* C2's case: a flipped payload bit in a zlib frame, decoded.
TamperDetectedWitness == Decoded /\ tamper.kind = "flip" /\ inMethod = COMP_ZLIB /\ tamper.at > HEADER_PAD_TO /\ dec.err = "IntegrityMismatch"

\* C3: calc_header fails with NameTooLong exactly when the encoded name is
\* longer than 175 bytes or the encoded extension longer than 20; within
\* those limits 30 + name_len + ext_len + 32 <= 256, HeaderOverflow is not
\* raised and the header is 256 bytes long.
HeaderBound ==
    pc = "header" =>
        /\ hdrCall.err = "NameTooLong" <=> (hdrCall.name_len > 175 \/ hdrCall.ext_len > 20)
        /\ (hdrCall.name_len <= 175 /\ hdrCall.ext_len <= 20) =>
              /\ 30 + hdrCall.name_len + hdrCall.ext_len + 32 <= 256
              /\ hdrCall.err = "OK"
              /\ hdrCall.len = 256

\* The last path component of the input file's name.
Component == Basename(inName)

\* The header of the stored image.
StoredHeader == parse_header(img.raw)

\* "{name}.{ext}" if ext is not empty, else "{name}".
Joined(name, ext) == IF ext # <<>> THEN name \o <<DOT>> \o ext ELSE name

\* C4 as stated: the stored extension is what follows the last '.' (empty
\* without a '.'), the stored base-name what precedes it, and decode without
\* -o suggests the two joined.
FilenameRoundTripAsStated ==
    (Decoded /\ Intact /\ decArg = <<>>) =>
        LET dot == RFind(Component, DOT)
            name == IF dot < 0 THEN Component ELSE Slice(Component, 0, dot)
            ext == IF dot < 0 THEN <<>> ELSE Slice(Component, dot + 1, Len(Component))
        IN StoredHeader.name = name /\ StoredHeader.ext = ext /\ dec.out_path = Joined(name, ext)

\* Whether the component has a character that is not a dot before offset i.
NonDotBefore(c, i) == \E j \in 1..i : c[j] # DOT

\* C4, amended: the extension is what follows the last '.' of the last path
\* component, provided a character other than '.' precedes that dot there
\* (otherwise the extension is empty and the base-name the whole component);
\* decode without -o suggests the component itself, less its final dot when
\* it ends in one that such a character precedes.
FilenameRoundTrip ==
    (Decoded /\ Intact /\ decArg = <<>>) =>
        LET c == Component
            dot == RFind(c, DOT)
            split == dot >= 0 /\ NonDotBefore(c, dot)
        IN /\ StoredHeader.name = (IF split THEN SubSeq(c, 1, dot) ELSE c)
           /\ StoredHeader.ext = (IF split THEN SubSeq(c, dot + 2, Len(c)) ELSE <<>>)
           /\ dec.out_path = (IF split /\ dot = Len(c) - 1 THEN SubSeq(c, 1, dot) ELSE c)

\* C4's case: ".rc", a name with a leading dot, encoded and decoded without
\* -o; the whole name is the base-name and comes back as the suggestion.
FilenameRoundTripWitness == Decoded /\ Intact /\ decArg = <<>> /\ inName = <<DOT, 114, 99>> /\ StoredHeader.ext = <<>> /\ dec.out_path = inName

\* Width and height as the claim defines them: the least w with w*w >= n and
\* the least h with w*h >= n.
DimsOf(n, w, h) == w * w >= n /\ (w - 1) * (w - 1) < n /\ w * h >= n /\ w * (h - 1) < n

\* C5: choose_dimensions(n) is (ceil(sqrt(n)), ceil(n / width)) for n >= 1,
\* so width*height >= n; 9 gives (3,3), 10 gives (4,3), 1 gives (1,1); and
\* encode calls it with at least the 64 records of the header.
DimensionChoice ==
    /\ pc = "dims" =>
          /\ DimsOf(dimCall.n, dimCall.w, dimCall.h)
          /\ dimCall.n = 9 => (dimCall.w = 3 /\ dimCall.h = 3)
          /\ dimCall.n = 10 => (dimCall.w = 4 /\ dimCall.h = 3)
          /\ dimCall.n = 1 => (dimCall.w = 1 /\ dimCall.h = 1)
    /\ pc = "encoded" =>
          /\ encN >= 64
          /\ DimsOf(encN, img.width, img.height)
          /\ Len(img.raw) = img.width * img.height * BYTES_PER_PIXEL

\* C5's case: choose_dimensions(10), where the grid has spare records.
DimensionChoiceWitness == pc = "dims" /\ dimCall = [n |-> 10, w |-> 4, h |-> 3]

\* C6: when the header's method byte names a method the registry lacks (an
\* unknown code, or zstd without the library) and all else is valid, decode
\* fails with UnsupportedMethod and writes nothing; without zstd, encode and
\* decode with none, zlib and lzma work as with it.
UnsupportedMethod ==
    /\ (Decoded /\ tamper.kind = "method" /\ img.raw[9] \notin COMPRESSORS(zstd)) => (dec.err = "UnsupportedMethod" /\ NothingWritten)
    /\ (~zstd /\ inMethod \in {COMP_NONE, COMP_ZLIB, COMP_LZMA}) =>
          /\ encErr # "KeyError"
          /\ (Decoded /\ Intact) => (dec.err = "OK" /\ outFile.data = inData)

\* C6's case: the method byte says zstd, the library is absent, decoded.
UnsupportedMethodWitness == Decoded /\ ~zstd /\ tamper.kind = "method" /\ img.raw[9] = COMP_ZSTD /\ dec.err = "UnsupportedMethod"

\* C7: a grid cut to fewer than 256 bytes fails with TruncatedImage, one cut
\* to at least 256 bytes but fewer than 256 + comp_size with Truncated;
\* neither writes anything.
Truncation ==
    (Decoded /\ tamper.kind = "trunc") =>
        /\ tamper.at < 256 => (dec.err = "TruncatedImage" /\ NothingWritten)
        /\ (tamper.at >= 256 /\ tamper.at < 256 + StoredCompSize) => (dec.err = "Truncated" /\ NothingWritten)

\* C7's case: a grid cut inside its compressed payload, decoded.
TruncationWitness == Decoded /\ tamper.kind = "trunc" /\ tamper.at > 256 /\ tamper.at < 256 + StoredCompSize /\ dec.err = "Truncated"

\* C8: after any of the first 8 bytes has changed, decode fails with
\* BadMagic and goes no further: nothing is written.
MagicCheck == (Decoded /\ tamper.kind = "magic") => (dec.err = "BadMagic" /\ NothingWritten)

\* C8's case: the last byte of the magic changed, decoded.
MagicCheckWitness == Decoded /\ tamper.kind = "magic" /\ tamper.at = 7 /\ dec.err = "BadMagic"

\* C9: inspect fails with InvalidMode on a grid that is not RGBA, with
\* TruncatedImage on fewer than 256 bytes and with BadMagic on a wrong
\* magic; otherwise it returns the parsed header.
InspectValidates ==
    pc = "inspected" =>
        /\ img.mode # "RGBA" => insp.err = "InvalidMode"
        /\ (img.mode = "RGBA" /\ Len(img.raw) < 256) => insp.err = "TruncatedImage"
        /\ (img.mode = "RGBA" /\ Len(img.raw) >= 256 /\ Slice(img.raw, 0, 8) # MAGIC) => insp.err = "BadMagic"
        /\ insp.err = "OK" => insp.fields = StoredHeader

\* C10: whenever decode fails, the output file is neither created nor
\* written: it is opened only after every failure point.
NoPartialOutput == (Decoded /\ dec.err # "OK") => (~dec.opened /\ ~outFile.exists)
====
